---- MODULE Spec2Model ----
(***************************************************************************)
(* Model of src/http_job_queue.go: HTTPJobQueue, the job-board job queue   *)
(* of the worker.  Jobs() lazily starts one poll loop per stored channel;  *)
(* pollForJobs runs one poll attempt; fetchJobID and fetchJob talk to the  *)
(* job board.                                                              *)
(***************************************************************************)
EXTENDS Integers, Sequences, FiniteSets, TLC

\* ------------------------------------------------------------------ bounds
MaxCalls  == 2   \* Jobs calls made on the queue instance (one per caller)
MaxLoops  == 2   \* channels (and so poll loops) that can be created
MaxTries  == 2   \* GETs one fetchJob can issue before its backoff budget is spent
NumProcs  == 2   \* processors in the pool
MaxJobID  == 1   \* largest LastJobID a processor reports
MaxResp   == 2   \* longest job-board candidate list

Callers == 1..MaxCalls
Loops   == 1..MaxLoops
Procs   == 1..NumProcs
\* Two contexts and two ready channels: enough to tell the one a loop was
\* started with from another one.
Ctxs    == {"ctxA", "ctxB"}
Readys  == {"readyA", "readyB"}

\* ------------------------------------------------- strings and conversions
\* A Go string is a sequence of one-character strings, so that "042" and
\* "42" are different strings of equal numeric value.
Digits == <<"0", "1", "2", "3", "4", "5", "6", "7", "8", "9">>

IsDigit(ch) == \E i \in 1..10 : Digits[i] = ch

DigitVal(ch) == (CHOOSE i \in 1..10 : Digits[i] = ch) - 1

\* strconv.FormatUint(n, 10)
RECURSIVE FormatUint(_)
FormatUint(n) ==
  IF n < 10 THEN <<Digits[n + 1]>>
  ELSE Append(FormatUint(n \div 10), Digits[(n % 10) + 1])

\* strconv.ParseUint(s, 10, 64): a syntax error on the empty string and on
\* any character that is not a decimal digit; leading zeros are accepted.
\* (The range error needs more than 19 digits; candidates here are shorter.)
RECURSIVE ParseDigits(_, _)
ParseDigits(s, acc) ==
  IF s = <<>> THEN acc
  ELSE ParseDigits(Tail(s), acc * 10 + DigitVal(Head(s)))

ParseUint(s) ==
  IF s = <<>> \/ \E i \in 1..Len(s) : ~IsDigit(s[i])
  THEN [ok |-> FALSE, val |-> 0]
  ELSE [ok |-> TRUE, val |-> ParseDigits(s, 0)]

\* Candidate id strings a job board may answer with: canonical ids, an id
\* with a leading zero, the empty string and a non-numeric string.
CandStrs == { <<"0">>, <<"1">>, <<"0", "1">>, <<"x">>, <<>> }

RECURSIVE SeqsUpTo(_, _)
SeqsUpTo(S, n) ==
  IF n = 0 THEN { <<>> }
  ELSE LET shorter == SeqsUpTo(S, n - 1)
       IN  shorter \cup { Append(s, x) : s \in { t \in shorter : Len(t) = n - 1 }, x \in S }

Responses == SeqsUpTo(CandStrs, MaxResp)

\* ------------------------------------------------------ the processor pool
\* What ProcessorEacherSizer.Each hands to the callback: the processors in
\* iteration order, each with its CurrentStatus and LastJobID.
Statuses == {"new", "processing", "waiting"}

Pools == [Procs -> [CurrentStatus : Statuses, LastJobID : 0..MaxJobID]]

\* ------------------------------------------------------------- fetchJobID
\* The payload as it would be if the callback did not test CurrentStatus.
RECURSIVE EachAppendAnyStatus(_, _, _)
EachAppendAnyStatus(pool, i, jobs) ==
  IF i > NumProcs THEN jobs
  ELSE EachAppendAnyStatus(pool, i + 1, Append(jobs, FormatUint(pool[i].LastJobID)))

FetchRequestPayloadAnyStatus(pool) == EachAppendAnyStatus(pool, 1, <<>>)

\* The request payload: Jobs starts empty and the Each callback appends the
\* formatted LastJobID of every processor whose status is "processing".
RECURSIVE EachAppend(_, _, _)
EachAppend(pool, i, jobs) ==
  IF i > NumProcs THEN jobs
  ELSE EachAppend(pool, i + 1,
         IF pool[i].CurrentStatus = "processing"
         THEN Append(jobs, FormatUint(pool[i].LastJobID))
         ELSE jobs)

FetchRequestPayload(pool) == EachAppend(pool, 1, <<>>)

\* The inner loop over the request's ids: alreadyRunning.
AlreadyRunning(strID, reqJobs) ==
  \E k \in 1..Len(reqJobs) : strID = reqJobs[k]

\* The loop as it would be if it ended at the first candidate that is not
\* already running and parses.
RECURSIVE FilterLoopFirst(_, _, _, _)
FilterLoopFirst(respJobs, reqJobs, i, jobIDs) ==
  IF i > Len(respJobs) THEN [err |-> "nil", jobIDs |-> jobIDs]
  ELSE IF AlreadyRunning(respJobs[i], reqJobs)
       THEN FilterLoopFirst(respJobs, reqJobs, i + 1, jobIDs)
       ELSE LET p == ParseUint(respJobs[i])
            IN  IF ~p.ok THEN [err |-> "parse", jobIDs |-> jobIDs]
                ELSE [err |-> "nil", jobIDs |-> Append(jobIDs, p.val)]

\* The loop over the response's candidates.  It ends at the first candidate
\* that is not already running and does not parse (the parse error), else
\* it collects the parsed ids in response order.
RECURSIVE FilterLoop(_, _, _, _)
FilterLoop(respJobs, reqJobs, i, jobIDs) ==
  IF i > Len(respJobs) THEN [err |-> "nil", jobIDs |-> jobIDs]
  ELSE IF AlreadyRunning(respJobs[i], reqJobs)
       THEN FilterLoop(respJobs, reqJobs, i + 1, jobIDs)
       ELSE LET p == ParseUint(respJobs[i])
            IN  IF ~p.ok THEN [err |-> "parse", jobIDs |-> jobIDs]
                ELSE FilterLoop(respJobs, reqJobs, i + 1, Append(jobIDs, p.val))

\* The result as it would be if the last filtered id were returned.
FilterResultLast(reqJobs, respJobs) ==
  LET r == FilterLoop(respJobs, reqJobs, 1, <<>>)
  IN  IF r.err # "nil" THEN [id |-> 0, err |-> "parse"]
      ELSE IF Len(r.jobIDs) = 0 THEN [id |-> 0, err |-> "noJobs"]
      ELSE [id |-> r.jobIDs[Len(r.jobIDs)], err |-> "nil"]

\* What fetchJobID returns for a decoded response: (id, err).
FilterResult(reqJobs, respJobs) ==
  LET r == FilterLoop(respJobs, reqJobs, 1, <<>>)
  IN  IF r.err # "nil" THEN [id |-> 0, err |-> "parse"]
      ELSE IF Len(r.jobIDs) = 0 THEN [id |-> 0, err |-> "noJobs"]
      ELSE [id |-> r.jobIDs[1], err |-> "nil"]

\* The outcome of the POST as fetchJobID sees it: client.Do fails, the body
\* does not decode, or a list of candidate id strings is decoded.
HTTPResults ==
  { [kind |-> "transport", jobs |-> <<>>], [kind |-> "decode", jobs |-> <<>>] }
  \cup { [kind |-> "ok", jobs |-> r] : r \in Responses }

\* fetchJobID from the built request payload on: (id, err).
FetchJobID(reqJobs, http) ==
  IF http.kind # "ok" THEN [id |-> 0, err |-> http.kind]
  ELSE FilterResult(reqJobs, http.jobs)

\* ------------------------------------------------------------------ state
VARIABLES
  buildJobChan,   \* q.buildJobChan: 0 is nil, else the channel
  mutex,          \* q.buildJobChanMutex: 0 is unlocked, else the caller holding it
  made,           \* channels made so far; the k-th make yields channel k
  cpc,            \* where each Jobs caller is: idle, lock, store, leave, returned
  blockedBy,      \* the call, still inside Jobs, that held the mutex when this
                  \* call reached Lock (0: none)
  callCtx,        \* ctx argument of the call in its critical section
  callReady,      \* ready argument of the call in its critical section
  local,          \* the call's local buildJobChan (line 96)
  ret,            \* what the call returned: (outChan, err)
  ctxDone,        \* per context: ctx.Done() is closed
  readyPending,   \* per ready channel: a signal is waiting to be received
  pc,             \* where each poll-loop goroutine is
  loopCtx,        \* ctx captured by the goroutine
  loopReady,      \* ready captured by the goroutine
  loopChan,       \* buildJobChan captured by the goroutine
  jobID,          \* jobID returned by fetchJobID
  tries,          \* GETs issued by the running fetchJob
  err,            \* err returned by fetchJob
  buildJob,       \* buildJob returned by fetchJob
  pollRet,        \* httpPollState pollForJobs returned, until it is called again
  last,           \* how that attempt ended: timeout, idErr, nilSent, jobSent
  cancelAtStart,  \* ctx was already done when the running attempt began
  sent,           \* values sent on the channel by the running attempt
  lateSends,      \* values a running loop has sent while its ctx was done
  lastRecv,       \* the value a consumer received since the last poll
                  \* attempt began, and its channel
  fpc,            \* where the fetchJobID call under study is
  fPool,          \* the pool Each iterates over in that call
  fReq,           \* fetchRequestPayload.Jobs, the body of the POST
  fPrev,          \* the body of the POST of the call before
  fHTTP,          \* what the POST came to
  fOut,           \* (id, err) returned by that call
  jpc,            \* where the fetchJob call under study is
  jID,            \* its id argument
  jCtxDone,       \* its ctx is done
  jTries,         \* GETs it has issued
  jOpErr,         \* the error the last run of the retried operation returned
  jBackoff,       \* what bo.NextBackOff() answered after that run
  jBody,          \* the body of the 200 response
  jOut            \* (job, err) returned by that call

queueVars  == <<buildJobChan, mutex, made>>
callerVars == <<cpc, blockedBy, callCtx, callReady, local, ret>>
envVars    == <<ctxDone, readyPending>>
loopVars   == <<pc, loopCtx, loopReady, loopChan, jobID, tries, err,
                buildJob, pollRet, last, cancelAtStart, sent, lateSends>>
fetchVars  == <<fpc, fPool, fHTTP, fReq, fPrev, fOut>>
jobVars    == <<jpc, jID, jCtxDone, jTries, jOpErr, jBackoff, jBody, jOut>>
vars == <<queueVars, callerVars, envVars, loopVars, lastRecv, fetchVars, jobVars>>

NilJob == [id |-> -1]
NoRet  == [out |-> 0, err |-> "none"]
NoRecv == [ch |-> 0, val |-> [id |-> -1]]
NoHTTP == [kind |-> "none", jobs |-> <<>>]
NoOut  == [id |-> 0, err |-> "none"]
NoPool == [p \in Procs |-> [CurrentStatus |-> "new", LastJobID |-> 0]]
NoBody == [decodes |-> FALSE, payloadVMType |-> "", configVMType |-> ""]
NoJob  == [job |-> [id |-> -1, VMType |-> ""], err |-> "none"]

\* NewHTTPJobQueue: no channel, an unlocked mutex; nothing runs yet.
InitQueue ==
  /\ buildJobChan = 0
  /\ mutex = 0
  /\ made = 0
  /\ cpc = [c \in Callers |-> "idle"]
  /\ blockedBy = [c \in Callers |-> 0]
  /\ callCtx = [c \in Callers |-> "ctxA"]
  /\ callReady = [c \in Callers |-> "readyA"]
  /\ local = [c \in Callers |-> 0]
  /\ ret = [c \in Callers |-> NoRet]
  /\ ctxDone = [x \in Ctxs |-> FALSE]
  /\ readyPending = [r \in Readys |-> FALSE]
  /\ pc = [l \in Loops |-> "none"]
  /\ loopCtx = [l \in Loops |-> "ctxA"]
  /\ loopReady = [l \in Loops |-> "readyA"]
  /\ loopChan = [l \in Loops |-> 0]
  /\ jobID = [l \in Loops |-> 0]
  /\ tries = [l \in Loops |-> 0]
  /\ err = [l \in Loops |-> "nil"]
  /\ buildJob = [l \in Loops |-> NilJob]
  /\ pollRet = [l \in Loops |-> "none"]
  /\ last = [l \in Loops |-> "none"]
  /\ cancelAtStart = [l \in Loops |-> FALSE]
  /\ sent = [l \in Loops |-> 0]
  /\ lateSends = [l \in Loops |-> 0]
  /\ lastRecv = NoRecv

\* No fetchJobID call is under study.
FetchOff ==
  /\ fpc = "off"
  /\ fPool = NoPool
  /\ fHTTP = NoHTTP
  /\ fReq = <<>>
  /\ fPrev = <<>>
  /\ fOut = NoOut

\* No fetchJob call is under study.
JobOff ==
  /\ jpc = "off"
  /\ jID = 0
  /\ jCtxDone = FALSE
  /\ jTries = 0
  /\ jOpErr = "nil"
  /\ jBackoff = "none"
  /\ jBody = NoBody
  /\ jOut = NoJob

Init ==
  /\ InitQueue
  /\ FetchOff
  /\ JobOff

\* ------------------------------------------------------------------- Jobs
\* A caller invokes Jobs and reaches q.buildJobChanMutex.Lock().
JobsCall(c) ==
  /\ cpc[c] = "idle"
  /\ cpc' = [cpc EXCEPT ![c] = "lock"]
  /\ blockedBy' = [blockedBy EXCEPT ![c] = mutex]
  /\ UNCHANGED <<queueVars, callCtx, callReady, local, ret, envVars, loopVars,
                 lastRecv, fetchVars, jobVars>>

\* Jobs as it would be without the mutex: the check runs while another call
\* is between its go statement and its store.
JobsEnterNoLock(c, ctx, ready) ==
  /\ cpc[c] = "lock"
  /\ UNCHANGED blockedBy
  /\ IF buildJobChan # 0
     THEN /\ ret' = [ret EXCEPT ![c] = [out |-> buildJobChan, err |-> "nil"]]
          /\ cpc' = [cpc EXCEPT ![c] = "returned"]
          /\ UNCHANGED <<mutex, made, callCtx, callReady, local, pc, loopCtx,
                         loopReady, loopChan>>
     ELSE /\ made < MaxLoops
          /\ made' = made + 1
          /\ mutex' = c
          /\ local' = [local EXCEPT ![c] = made + 1]
          /\ callCtx' = [callCtx EXCEPT ![c] = ctx]
          /\ callReady' = [callReady EXCEPT ![c] = ready]
          /\ pc' = [pc EXCEPT ![made + 1] = "start"]
          /\ loopCtx' = [loopCtx EXCEPT ![made + 1] = ctx]
          /\ loopReady' = [loopReady EXCEPT ![made + 1] = ready]
          /\ loopChan' = [loopChan EXCEPT ![made + 1] = made + 1]
          /\ cpc' = [cpc EXCEPT ![c] = "store"]
          /\ UNCHANGED ret
  /\ UNCHANGED <<buildJobChan, envVars, jobID, tries, err, buildJob,
                 pollRet, last, cancelAtStart, sent, lateSends, lastRecv,
                 fetchVars, jobVars>>

\* Jobs as it would be if a call that finds a stored channel handed its
\* ctx and ready to the running loop.
JobsEnterRebinds(c, ctx, ready) ==
  /\ cpc[c] = "lock"
  /\ mutex = 0
  /\ UNCHANGED blockedBy
  /\ IF buildJobChan # 0
     THEN /\ ret' = [ret EXCEPT ![c] = [out |-> buildJobChan, err |-> "nil"]]
          /\ cpc' = [cpc EXCEPT ![c] = "returned"]
          /\ loopCtx' = [loopCtx EXCEPT ![buildJobChan] = ctx]
          /\ loopReady' = [loopReady EXCEPT ![buildJobChan] = ready]
          /\ UNCHANGED <<mutex, made, callCtx, callReady, local, pc, loopChan>>
     ELSE /\ made < MaxLoops
          /\ made' = made + 1
          /\ mutex' = c
          /\ local' = [local EXCEPT ![c] = made + 1]
          /\ callCtx' = [callCtx EXCEPT ![c] = ctx]
          /\ callReady' = [callReady EXCEPT ![c] = ready]
          /\ pc' = [pc EXCEPT ![made + 1] = "start"]
          /\ loopCtx' = [loopCtx EXCEPT ![made + 1] = ctx]
          /\ loopReady' = [loopReady EXCEPT ![made + 1] = ready]
          /\ loopChan' = [loopChan EXCEPT ![made + 1] = made + 1]
          /\ cpc' = [cpc EXCEPT ![c] = "store"]
          /\ UNCHANGED ret
  /\ UNCHANGED <<buildJobChan, envVars, jobID, tries, err, buildJob,
                 pollRet, last, cancelAtStart, sent, lateSends, lastRecv,
                 fetchVars, jobVars>>

\* Lock, then the check of q.buildJobChan.  A stored channel is returned at
\* once (the deferred Unlock runs).  Otherwise the channel is made and the
\* goroutine is started on (ctx, ready, buildJobChan); the store of line 112
\* is still to come and the mutex stays held.
JobsEnter(c, ctx, ready) ==
  /\ cpc[c] = "lock"
  /\ mutex = 0
  /\ UNCHANGED blockedBy
  /\ IF buildJobChan # 0
     THEN /\ ret' = [ret EXCEPT ![c] = [out |-> buildJobChan, err |-> "nil"]]
          /\ cpc' = [cpc EXCEPT ![c] = "returned"]
          /\ UNCHANGED <<mutex, made, callCtx, callReady, local, pc, loopCtx,
                         loopReady, loopChan>>
     ELSE /\ made < MaxLoops
          /\ made' = made + 1
          /\ mutex' = c
          /\ local' = [local EXCEPT ![c] = made + 1]
          /\ callCtx' = [callCtx EXCEPT ![c] = ctx]
          /\ callReady' = [callReady EXCEPT ![c] = ready]
          /\ pc' = [pc EXCEPT ![made + 1] = "start"]
          /\ loopCtx' = [loopCtx EXCEPT ![made + 1] = ctx]
          /\ loopReady' = [loopReady EXCEPT ![made + 1] = ready]
          /\ loopChan' = [loopChan EXCEPT ![made + 1] = made + 1]
          /\ cpc' = [cpc EXCEPT ![c] = "store"]
          /\ UNCHANGED ret
  /\ UNCHANGED <<buildJobChan, envVars, jobID, tries, err, buildJob,
                 pollRet, last, cancelAtStart, sent, lateSends, lastRecv,
                 fetchVars, jobVars>>

\* Jobs as it would be if line 112 were missing: the channel is returned
\* but never stored.
JobsStoreSkipped(c) ==
  /\ cpc[c] = "store"
  /\ UNCHANGED buildJobChan
  /\ mutex' = 0
  /\ cpc' = [cpc EXCEPT ![c] = "leave"]
  /\ callCtx' = [callCtx EXCEPT ![c] = "ctxA"]
  /\ callReady' = [callReady EXCEPT ![c] = "readyA"]
  /\ UNCHANGED <<made, blockedBy, local, ret, envVars, loopVars, lastRecv,
                 fetchVars, jobVars>>

\* q.buildJobChan = buildJobChan, and on `return outChan, nil` the deferred
\* Unlock.
JobsStore(c) ==
  /\ cpc[c] = "store"
  /\ buildJobChan' = local[c]
  /\ mutex' = 0
  /\ cpc' = [cpc EXCEPT ![c] = "leave"]
  /\ callCtx' = [callCtx EXCEPT ![c] = "ctxA"]
  /\ callReady' = [callReady EXCEPT ![c] = "readyA"]
  /\ UNCHANGED <<made, blockedBy, local, ret, envVars, loopVars, lastRecv,
                 fetchVars, jobVars>>

\* Jobs hands (outChan, nil) to its caller.
JobsReturn(c) ==
  /\ cpc[c] = "leave"
  /\ ret' = [ret EXCEPT ![c] = [out |-> local[c], err |-> "nil"]]
  /\ cpc' = [cpc EXCEPT ![c] = "returned"]
  /\ blockedBy' = [d \in Callers |-> IF blockedBy[d] = c THEN 0 ELSE blockedBy[d]]
  /\ UNCHANGED <<queueVars, callCtx, callReady, local, envVars, loopVars,
                 lastRecv, fetchVars, jobVars>>

\* ------------------------------------------------------------ environment
\* The owner of a context cancels it.
Cancel(x) ==
  /\ ~ctxDone[x]
  /\ ctxDone' = [ctxDone EXCEPT ![x] = TRUE]
  /\ UNCHANGED <<queueVars, callerVars, readyPending, loopVars, lastRecv,
                 fetchVars, jobVars>>

\* A processor signals on a ready channel.
Signal(r) ==
  /\ ~readyPending[r]
  /\ readyPending' = [readyPending EXCEPT ![r] = TRUE]
  /\ UNCHANGED <<queueVars, callerVars, ctxDone, loopVars, lastRecv, fetchVars, jobVars>>

\* -------------------------------------------------------------- poll loop
\* pollForJobs returns `state`: its locals die, and the driver loop of Jobs
\* sleeps (Sleep), calls it again (Continue) or returns (Break).
Returns(l, state, how) ==
  /\ pollRet' = [pollRet EXCEPT ![l] = state]
  /\ last' = [last EXCEPT ![l] = how]
  /\ pc' = [pc EXCEPT ![l] = CASE state = "Sleep" -> "sleep"
                               [] state = "Continue" -> "start"
                               [] state = "Break" -> "done"]
  /\ jobID' = [jobID EXCEPT ![l] = 0]
  /\ tries' = [tries EXCEPT ![l] = 0]
  /\ err' = [err EXCEPT ![l] = "nil"]
  /\ buildJob' = [buildJob EXCEPT ![l] = NilJob]

\* The driver calls pollForJobs: a poll attempt begins at the first select.
LoopStart(l) ==
  /\ pc[l] = "start"
  /\ pc' = [pc EXCEPT ![l] = "select"]
  /\ cancelAtStart' = [cancelAtStart EXCEPT ![l] = ctxDone[loopCtx[l]]]
  /\ sent' = [sent EXCEPT ![l] = 0]
  /\ pollRet' = [pollRet EXCEPT ![l] = "none"]
  /\ last' = [last EXCEPT ![l] = "none"]
  /\ lastRecv' = NoRecv
  /\ UNCHANGED <<queueVars, callerVars, envVars, loopCtx, loopReady, loopChan,
                 jobID, tries, err, buildJob, lateSends, fetchVars, jobVars>>

\* case <-ready
ReadyFire(l) ==
  /\ pc[l] = "select"
  /\ readyPending[loopReady[l]]
  /\ readyPending' = [readyPending EXCEPT ![loopReady[l]] = FALSE]
  /\ pc' = [pc EXCEPT ![l] = "fetchID"]
  /\ UNCHANGED <<queueVars, callerVars, ctxDone, loopCtx, loopReady, loopChan,
                 jobID, tries, err, buildJob, pollRet, last, cancelAtStart,
                 sent, lateSends, lastRecv, fetchVars, jobVars>>

\* The timeout case as it would be without its return: the attempt goes
\* on to the second select.
TimeoutFallsThrough(l) ==
  /\ pc[l] = "select"
  /\ ~readyPending[loopReady[l]]
  /\ pc' = [pc EXCEPT ![l] = "check"]
  /\ UNCHANGED <<queueVars, callerVars, envVars, loopCtx, loopReady, loopChan,
                 jobID, tries, err, buildJob, pollRet, last, cancelAtStart,
                 sent, lateSends, lastRecv, fetchVars, jobVars>>

\* The timeout case as it would be if it returned httpPollStateSleep.
TimeoutSleeps(l) ==
  /\ pc[l] = "select"
  /\ ~readyPending[loopReady[l]]
  /\ Returns(l, "Sleep", "timeout")
  /\ UNCHANGED <<queueVars, callerVars, envVars, loopCtx, loopReady, loopChan,
                 cancelAtStart, sent, lateSends, lastRecv, fetchVars, jobVars>>

\* case <-time.After(q.pollInterval): return httpPollStateContinue
Timeout(l) ==
  /\ pc[l] = "select"
  /\ ~readyPending[loopReady[l]]
  /\ Returns(l, "Continue", "timeout")
  /\ UNCHANGED <<queueVars, callerVars, envVars, loopCtx, loopReady, loopChan,
                 cancelAtStart, sent, lateSends, lastRecv, fetchVars, jobVars>>

\* Every (id, err) fetchJobID can return once its POST went out: over all
\* pools Each can show and all outcomes of the POST.
FetchJobIDResults ==
  { FetchJobID(FetchRequestPayload(pool), http) : pool \in Pools, http \in HTTPResults }

\* The id fetch as it would be if the POST did not carry ctx.
FetchIDNoCtx(l, r) ==
  /\ pc[l] = "fetchID"
  /\ IF r.err # "nil"
     THEN Returns(l, "Sleep", "idErr")
     ELSE /\ pc' = [pc EXCEPT ![l] = "fetchJob"]
          /\ jobID' = [jobID EXCEPT ![l] = r.id]
          /\ UNCHANGED <<tries, err, buildJob, pollRet, last>>
  /\ UNCHANGED <<queueVars, callerVars, envVars, loopCtx, loopReady, loopChan,
                 cancelAtStart, sent, lateSends, lastRecv, fetchVars, jobVars>>

\* The id fetch as it would be without the return on error: the attempt
\* goes on to the second select.
FetchIDFallsThrough(l, r) ==
  /\ pc[l] = "fetchID"
  /\ IF ctxDone[loopCtx[l]] \/ r.err # "nil"
     THEN /\ pc' = [pc EXCEPT ![l] = "check"]
          /\ UNCHANGED <<jobID, tries, err, buildJob, pollRet, last>>
     ELSE /\ pc' = [pc EXCEPT ![l] = "fetchJob"]
          /\ jobID' = [jobID EXCEPT ![l] = r.id]
          /\ UNCHANGED <<tries, err, buildJob, pollRet, last>>
  /\ UNCHANGED <<queueVars, callerVars, envVars, loopCtx, loopReady, loopChan,
                 cancelAtStart, sent, lateSends, lastRecv, fetchVars, jobVars>>

\* jobID, err := q.fetchJobID(ctx) and the `if err != nil` after it.  The
\* POST carries ctx (req.WithContext), so client.Do fails when ctx is
\* already done; otherwise fetchJobID returns r.  An error ends the attempt
\* with Sleep, before the second select is reached.
FetchID(l, r) ==
  /\ pc[l] = "fetchID"
  /\ IF ctxDone[loopCtx[l]] \/ r.err # "nil"
     THEN Returns(l, "Sleep", "idErr")
     ELSE /\ pc' = [pc EXCEPT ![l] = "fetchJob"]
          /\ jobID' = [jobID EXCEPT ![l] = r.id]
          /\ UNCHANGED <<tries, err, buildJob, pollRet, last>>
  /\ UNCHANGED <<queueVars, callerVars, envVars, loopCtx, loopReady, loopChan,
                 cancelAtStart, sent, lateSends, lastRecv, fetchVars, jobVars>>

\* What one GET of fetchJob's retried operation, and the decoding after a
\* 200, can come to.
TryOutcomes == {"transport", "non200", "ok", "decode"}

\* fetchJob as it would be if it asked the job board for another id than
\* the one it was called with.
FetchJobTryOtherID(l, outcome, stop) ==
  /\ pc[l] = "fetchJob"
  /\ ctxDone[loopCtx[l]] => outcome = "transport"
  /\ tries' = [tries EXCEPT ![l] = @ + 1]
  /\ CASE outcome \in {"transport", "non200"} ->
            IF stop \/ tries[l] + 1 >= MaxTries
            THEN /\ err' = [err EXCEPT ![l] = "budget"]
                 /\ pc' = [pc EXCEPT ![l] = "deliver"]
                 /\ UNCHANGED buildJob
            ELSE UNCHANGED <<err, pc, buildJob>>
       [] outcome = "ok" ->
            /\ buildJob' = [buildJob EXCEPT ![l] = [id |-> MaxJobID - jobID[l]]]
            /\ pc' = [pc EXCEPT ![l] = "deliver"]
            /\ UNCHANGED err
       [] outcome = "decode" ->
            /\ err' = [err EXCEPT ![l] = "decode"]
            /\ pc' = [pc EXCEPT ![l] = "deliver"]
            /\ UNCHANGED buildJob
  /\ UNCHANGED <<queueVars, callerVars, envVars, loopCtx, loopReady, loopChan,
                 jobID, pollRet, last, cancelAtStart, sent, lateSends,
                 lastRecv, fetchVars, jobVars>>

\* fetchJob: one run of the operation under backoff.Retry and what follows.
\* The GET carries ctx, so Do fails when ctx is done.  A transport error or
\* a non-200 status is retried unless the backoff says Stop (`stop`: the
\* elapsed-time budget is spent; it is spent after MaxTries tries at the
\* latest), and then the last error is returned.  A 200 ends the retrying:
\* the body decodes into a job, or fetchJob returns the decode error.
FetchJobTry(l, outcome, stop) ==
  /\ pc[l] = "fetchJob"
  /\ ctxDone[loopCtx[l]] => outcome = "transport"
  /\ tries' = [tries EXCEPT ![l] = @ + 1]
  /\ CASE outcome \in {"transport", "non200"} ->
            IF stop \/ tries[l] + 1 >= MaxTries
            THEN /\ err' = [err EXCEPT ![l] = "budget"]
                 /\ pc' = [pc EXCEPT ![l] = "deliver"]
                 /\ UNCHANGED buildJob
            ELSE UNCHANGED <<err, pc, buildJob>>
       [] outcome = "ok" ->
            /\ buildJob' = [buildJob EXCEPT ![l] = [id |-> jobID[l]]]
            /\ pc' = [pc EXCEPT ![l] = "deliver"]
            /\ UNCHANGED err
       [] outcome = "decode" ->
            /\ err' = [err EXCEPT ![l] = "decode"]
            /\ pc' = [pc EXCEPT ![l] = "deliver"]
            /\ UNCHANGED buildJob
  /\ UNCHANGED <<queueVars, callerVars, envVars, loopCtx, loopReady, loopChan,
                 jobID, pollRet, last, cancelAtStart, sent, lateSends,
                 lastRecv, fetchVars, jobVars>>

\* Someone who was handed channel ch by Jobs can receive on it.
HasConsumer(ch) == \E c \in Callers : cpc[c] = "returned" /\ ret[c].out = ch

Bump(n) == IF n < 2 THEN n + 1 ELSE n

\* The send as it would be on a channel with a buffer: it completes with
\* nobody receiving.
DeliverBuffered(l) ==
  /\ pc[l] = "deliver"
  /\ sent' = [sent EXCEPT ![l] = Bump(@)]
  /\ lateSends' = [lateSends EXCEPT ![l] =
                     IF ctxDone[loopCtx[l]] THEN Bump(@) ELSE @]
  /\ IF err[l] # "nil"
     THEN Returns(l, "Sleep", "nilSent")
     ELSE /\ pc' = [pc EXCEPT ![l] = "check"]
          /\ UNCHANGED <<jobID, tries, err, buildJob, pollRet, last>>
  /\ UNCHANGED <<queueVars, callerVars, envVars, loopCtx, loopReady, loopChan,
                 cancelAtStart, lastRecv, fetchVars, jobVars>>

\* The send as it would be without the return after the nil send: every
\* send goes on to the second select.
DeliverFallsThrough(l) ==
  /\ pc[l] = "deliver"
  /\ HasConsumer(loopChan[l])
  /\ lastRecv' = [ch |-> loopChan[l],
                  val |-> IF err[l] # "nil" THEN NilJob ELSE buildJob[l]]
  /\ sent' = [sent EXCEPT ![l] = Bump(@)]
  /\ lateSends' = [lateSends EXCEPT ![l] =
                     IF ctxDone[loopCtx[l]] THEN Bump(@) ELSE @]
  /\ pc' = [pc EXCEPT ![l] = "check"]
  /\ UNCHANGED <<jobID, tries, err, buildJob, pollRet, last>>
  /\ UNCHANGED <<queueVars, callerVars, envVars, loopCtx, loopReady, loopChan,
                 cancelAtStart, fetchVars, jobVars>>

\* The blocking send: `buildJobChan <- nil; return httpPollStateSleep` when
\* fetchJob failed, else `buildJobChan <- buildJob` and on to the second
\* select.  It completes when a consumer receives.
Deliver(l) ==
  /\ pc[l] = "deliver"
  /\ HasConsumer(loopChan[l])
  /\ lastRecv' = [ch |-> loopChan[l],
                  val |-> IF err[l] # "nil" THEN NilJob ELSE buildJob[l]]
  /\ sent' = [sent EXCEPT ![l] = Bump(@)]
  /\ lateSends' = [lateSends EXCEPT ![l] =
                     IF ctxDone[loopCtx[l]] THEN Bump(@) ELSE @]
  /\ IF err[l] # "nil"
     THEN Returns(l, "Sleep", "nilSent")
     ELSE /\ pc' = [pc EXCEPT ![l] = "check"]
          /\ UNCHANGED <<jobID, tries, err, buildJob, pollRet, last>>
  /\ UNCHANGED <<queueVars, callerVars, envVars, loopCtx, loopReady, loopChan,
                 cancelAtStart, fetchVars, jobVars>>

\* The second select as it would be without line 151: Break is returned and
\* the stored channel stays.
CheckCtxNoClear(l) ==
  /\ pc[l] = "check"
  /\ IF ctxDone[loopCtx[l]]
     THEN /\ Returns(l, "Break", "jobSent")
          /\ loopCtx' = [loopCtx EXCEPT ![l] = "ctxA"]
          /\ loopReady' = [loopReady EXCEPT ![l] = "readyA"]
          /\ cancelAtStart' = [cancelAtStart EXCEPT ![l] = FALSE]
          /\ lateSends' = [lateSends EXCEPT ![l] = 0]
     ELSE /\ Returns(l, "Sleep", "jobSent")
          /\ UNCHANGED <<loopCtx, loopReady, cancelAtStart, lateSends>>
  /\ UNCHANGED <<queueVars, callerVars, envVars, loopChan, sent, lastRecv,
                 fetchVars, jobVars>>

\* The second select: on ctx.Done() clear q.buildJobChan and return Break,
\* on which the goroutine returns and what it captured is gone; else return
\* Sleep.  The clear takes no lock, so it can fall anywhere among the steps
\* of the Jobs calls, inside a critical section too; a call's check reads
\* the old channel or nil according to which side of this step it falls on.
CheckCtx(l) ==
  /\ pc[l] = "check"
  /\ IF ctxDone[loopCtx[l]]
     THEN /\ buildJobChan' = 0
          /\ Returns(l, "Break", "jobSent")
          /\ loopCtx' = [loopCtx EXCEPT ![l] = "ctxA"]
          /\ loopReady' = [loopReady EXCEPT ![l] = "readyA"]
          /\ cancelAtStart' = [cancelAtStart EXCEPT ![l] = FALSE]
          /\ lateSends' = [lateSends EXCEPT ![l] = 0]
     ELSE /\ Returns(l, "Sleep", "jobSent")
          /\ UNCHANGED <<buildJobChan, loopCtx, loopReady, cancelAtStart, lateSends>>
  /\ UNCHANGED <<mutex, made, callerVars, envVars, loopChan, sent, lastRecv,
                 fetchVars, jobVars>>

\* time.Sleep(q.pollInterval) is over; the driver loops.
Wake(l) ==
  /\ pc[l] = "sleep"
  /\ pc' = [pc EXCEPT ![l] = "start"]
  /\ UNCHANGED <<queueVars, callerVars, envVars, loopCtx, loopReady, loopChan,
                 jobID, tries, err, buildJob, pollRet, last, cancelAtStart,
                 sent, lateSends, lastRecv, fetchVars, jobVars>>

\* The steps a poll-loop goroutine takes without waiting for anyone: the Go
\* scheduler runs it, a pending ready signal is received, timers fire and
\* HTTP requests come back.  Only the send waits, for a consumer.
LoopStep(l) ==
  \/ LoopStart(l)
  \/ ReadyFire(l)
  \/ Timeout(l)
  \/ \E r \in FetchJobIDResults : FetchID(l, r)
  \/ \E o \in TryOutcomes, stop \in BOOLEAN : FetchJobTry(l, o, stop)
  \/ CheckCtx(l)
  \/ Wake(l)

Next ==
  \/ \E c \in Callers : JobsCall(c)
  \/ \E c \in Callers, x \in Ctxs, r \in Readys : JobsEnter(c, x, r)
  \/ \E c \in Callers : JobsStore(c)
  \/ \E c \in Callers : JobsReturn(c)
  \/ \E x \in Ctxs : Cancel(x)
  \/ \E r \in Readys : Signal(r)
  \/ \E l \in Loops : LoopStart(l)
  \/ \E l \in Loops : ReadyFire(l)
  \/ \E l \in Loops : Timeout(l)
  \/ \E l \in Loops, r \in FetchJobIDResults : FetchID(l, r)
  \/ \E l \in Loops, o \in TryOutcomes, stop \in BOOLEAN : FetchJobTry(l, o, stop)
  \/ \E l \in Loops : Deliver(l)
  \/ \E l \in Loops : CheckCtx(l)
  \/ \E l \in Loops : Wake(l)

Spec == Init /\ [][Next]_vars

\* Every started goroutine keeps being scheduled; callers, cancellation,
\* ready signals and consumers owe nothing.
FairSpec == Spec /\ \A l \in Loops : WF_vars(LoopStep(l))

\* ------------------------------------- fetchJobID on its own, all inputs
InitFetch ==
  /\ InitQueue
  /\ fpc = "start"
  /\ fPool \in Pools
  /\ fHTTP = NoHTTP
  /\ fReq = <<>>
  /\ fPrev = <<>>
  /\ fOut = NoOut
  /\ JobOff

\* Lines 161-166: the request payload is built from the pool.
FetchBuild ==
  /\ fpc = "start"
  /\ fReq' = FetchRequestPayload(fPool)
  /\ fPrev' = fReq
  /\ fpc' = "posted"
  /\ UNCHANGED <<queueVars, callerVars, envVars, loopVars, lastRecv, jobVars, fPool,
                 fHTTP, fOut>>

\* Lines 195-233: the POST comes back and fetchJobID returns.
FetchReturn(http) ==
  /\ fpc = "posted"
  /\ fHTTP' = http
  /\ fOut' = FetchJobID(fReq, http)
  /\ fPrev' = <<>>
  /\ fpc' = "returned"
  /\ UNCHANGED <<queueVars, callerVars, envVars, loopVars, lastRecv, jobVars, fPool, fReq>>

\* The poll attempt is over; what the call returned is used up.
FetchDone ==
  /\ fpc = "returned"
  /\ fPool' = NoPool
  /\ fHTTP' = NoHTTP
  /\ fOut' = NoOut
  /\ fpc' = "idle"
  /\ UNCHANGED <<queueVars, callerVars, envVars, loopVars, lastRecv, jobVars, fReq, fPrev>>

\* The next poll attempt calls fetchJobID again, on the pool as it is then.
FetchAgain(pool) ==
  /\ fpc = "idle"
  /\ fPool' = pool
  /\ fpc' = "start"
  /\ UNCHANGED <<queueVars, callerVars, envVars, loopVars, lastRecv, jobVars, fHTTP,
                 fReq, fPrev, fOut>>

NextFetch ==
  \/ FetchBuild
  \/ \E http \in HTTPResults : FetchReturn(http)
  \/ FetchDone
  \/ \E pool \in Pools : FetchAgain(pool)

SpecFetch == InitFetch /\ [][NextFetch]_vars

\* --------------------------------------- fetchJob on its own, all inputs
\* VM types a job-board body can name; "" is an absent or empty vm_type.
VMTypes == {"", "default", "premium"}

\* The package's default VM type, handed to SetDefaults.
VMTypeDefault == "default"

\* The body of a 200: whether it decodes (ReadAll and the three parses),
\* the VM type of its payload data and the VM type of its start-attributes
\* config.
Bodies == [decodes : BOOLEAN, payloadVMType : VMTypes, configVMType : VMTypes]

\* Line 320 as it would be without the assignment.
KeepConfigVMType(configVM, payloadVM) == configVM

\* buildJob.startAttributes = startAttrs.Data.Config, and then
\* buildJob.startAttributes.VMType = buildJob.payload.Data.VMType
OverwriteVMType(configVM, payloadVM) == payloadVM

\* StartAttributes.SetDefaults, for the VM type: a field left unset takes
\* the default, a set field is kept.
SetDefaults(vmType) == IF vmType = "" THEN VMTypeDefault ELSE vmType

\* The VM type of the start attributes of the job fetchJob returns.
StartAttributesVMType(body) ==
  SetDefaults(OverwriteVMType(body.configVMType, body.payloadVMType))

\* The errors the retried operation returns: client.Do failed, or the
\* status is not 200.
Retryable == {"transport", "non200"}

InitJob ==
  /\ InitQueue
  /\ FetchOff
  /\ jpc = "get"
  /\ jID \in 0..MaxJobID
  /\ jCtxDone = FALSE
  /\ jTries = 0
  /\ jOpErr = "nil"
  /\ jBackoff = "none"
  /\ jBody = NoBody
  /\ jOut = NoJob

\* The context of the call is cancelled while fetchJob runs.
JobCancel ==
  /\ jpc \in {"get", "got200"}
  /\ ~jCtxDone
  /\ jCtxDone' = TRUE
  /\ UNCHANGED <<queueVars, callerVars, envVars, loopVars, lastRecv, fetchVars,
                 jpc, jID, jTries, jOpErr, jBackoff, jBody, jOut>>

\* One run of the operation as it would be if Retry went on after the
\* backoff said Stop, up to the last try the model allows.
JobTryNoBudget(outcome, stop) ==
  /\ jpc = "get"
  /\ jCtxDone => outcome = "transport"
  /\ jTries' = jTries + 1
  /\ IF outcome \in Retryable
     THEN /\ jOpErr' = outcome
          /\ jBackoff' = IF stop \/ jTries + 1 >= MaxTries THEN "Stop" ELSE "wait"
          /\ IF jTries + 1 >= MaxTries
             THEN jpc' = "returned" /\ jOut' = [job |-> NoJob.job, err |-> outcome]
             ELSE UNCHANGED <<jpc, jOut>>
     ELSE /\ jOpErr' = "nil"
          /\ jBackoff' = "none"
          /\ jpc' = "got200"
          /\ UNCHANGED jOut
  /\ UNCHANGED <<queueVars, callerVars, envVars, loopVars, lastRecv, fetchVars,
                 jID, jCtxDone, jBody>>

\* One run of the operation under backoff.Retry (lines 276-291), and what
\* Retry does with its result.  The GET carries ctx, so Do fails when ctx is
\* done.  After a transport error or a non-200 status Retry asks the
\* backoff: on Stop (`stop`: more than MaxElapsedTime has gone by; it has
\* after MaxTries tries at the latest) Retry returns that error and
\* fetchJob returns it wrapped (lines 293-295); else Retry waits and runs
\* the operation again.  After a 200 the operation returns nil and Retry
\* returns, the backoff unasked.
JobTry(outcome, stop) ==
  /\ jpc = "get"
  /\ jCtxDone => outcome = "transport"
  /\ jTries' = jTries + 1
  /\ IF outcome \in Retryable
     THEN /\ jOpErr' = outcome
          /\ IF stop \/ jTries + 1 >= MaxTries
             THEN /\ jBackoff' = "Stop"
                  /\ jpc' = "returned"
                  /\ jOut' = [job |-> NoJob.job, err |-> outcome]
             ELSE /\ jBackoff' = "wait"
                  /\ UNCHANGED <<jpc, jOut>>
     ELSE /\ jOpErr' = "nil"
          /\ jBackoff' = "none"
          /\ jpc' = "got200"
          /\ UNCHANGED jOut
  /\ UNCHANGED <<queueVars, callerVars, envVars, loopVars, lastRecv, fetchVars,
                 jID, jCtxDone, jBody>>

\* Lines 297-323: the body of the 200 is read and parsed.  A body that does
\* not decode makes fetchJob return the decode error; else the job is
\* built, with its start attributes, and returned.
JobDecode(body) ==
  /\ jpc = "got200"
  /\ jBody' = body
  /\ jOut' = IF body.decodes
             THEN [job |-> [id |-> jID, VMType |-> StartAttributesVMType(body)],
                   err |-> "nil"]
             ELSE [job |-> NoJob.job, err |-> "decode"]
  /\ jpc' = "returned"
  /\ UNCHANGED <<queueVars, callerVars, envVars, loopVars, lastRecv, fetchVars,
                 jID, jCtxDone, jTries, jOpErr, jBackoff>>

\* The steps fetchJob takes by itself: requests come back, bodies are read.
JobStep ==
  \/ \E o \in Retryable \cup {"ok200"}, stop \in BOOLEAN : JobTry(o, stop)
  \/ \E body \in Bodies : JobDecode(body)

NextJob ==
  \/ JobCancel
  \/ \E o \in Retryable \cup {"ok200"}, stop \in BOOLEAN : JobTry(o, stop)
  \/ \E body \in Bodies : JobDecode(body)

\* fetchJob keeps running: every request it issues comes back.
SpecJob == InitJob /\ [][NextJob]_vars /\ WF_vars(JobStep)

\* ----------------------------------------------------------------- claims
Returned     == { c \in Callers : cpc[c] = "returned" }
StartedLoops == { l \in Loops : pc[l] # "none" }
NoLoopEnded  == \A l \in Loops : pc[l] # "done"
SomeLoopEnded == \E l \in Loops : pc[l] = "done"

\* Caller c leaves Lock and runs the check of q.buildJobChan in this step.
ChecksChan(c) == cpc[c] = "lock" /\ cpc'[c] # "lock"

\* Loop l's send completes in this step.
Sends(l) == pc[l] = "deliver" /\ pc'[l] # "deliver"

\* C1: as long as no loop has cleared the stored channel, all Jobs calls,
\* however they overlap, return one and the same channel and one poll loop
\* has been started; a call whose check finds a stored channel returns that
\* channel and starts no loop.
C1_OneChannelOneLoop ==
  /\ [](NoLoopEnded =>
          /\ \A c, d \in Returned : ret[c].out = ret[d].out /\ ret[c].out # 0
          /\ Cardinality(StartedLoops) <= 1
          /\ (\E c \in Callers : cpc[c] \in {"store", "leave", "returned"})
               => Cardinality(StartedLoops) = 1
          /\ \A c \in Callers : cpc[c] = "leave" => buildJobChan = local[c])
  /\ [][\A c \in Callers :
          (ChecksChan(c) /\ buildJobChan # 0) =>
            /\ cpc'[c] = "returned"
            /\ ret'[c].out = buildJobChan
            /\ made' = made
            /\ \A l \in Loops : (pc'[l] = "none") = (pc[l] = "none")]_vars

\* Call d reached Lock while call c was between its go statement and its
\* store; d has returned the channel c stored, which c is about to return
\* itself; one loop runs.
C1_Witness ==
  /\ NoLoopEnded
  /\ Cardinality(StartedLoops) = 1
  /\ \E c, d \in Callers :
       /\ cpc[c] = "leave" /\ cpc[d] = "returned"
       /\ blockedBy[d] = c
       /\ ret[d].out = local[c] /\ buildJobChan = local[c]

\* C2: once the context a loop was started with is cancelled, the loop
\* eventually returns Break and exits, with the stored channel cleared.
C2_CancelEndsLoop ==
  \A l \in Loops :
    (pc[l] \notin {"none", "done"} /\ ctxDone[loopCtx[l]])
      ~> (pc[l] = "done" /\ buildJobChan # loopChan[l])

\* pollForJobs returns in this step from an attempt that received a ready
\* signal.
ReturnsAfterReady(l) ==
  pc[l] \in {"fetchID", "deliver", "check"} /\ pc'[l] \in {"sleep", "start", "done"}

\* C3: every attempt that received a ready signal ends with the check of
\* the context: Break and a cleared channel when it is cancelled, else Sleep.
C3_ContextCheckedAfterEveryCycle ==
  [][\A l \in Loops :
       ReturnsAfterReady(l) =>
         IF ctxDone[loopCtx[l]]
         THEN pc'[l] = "done" /\ pollRet'[l] = "Break" /\ buildJobChan' = 0
         ELSE pc'[l] = "sleep" /\ pollRet'[l] = "Sleep"]_vars

\* C4: an attempt that began after the cancellation sends nothing, and at
\* most one value is sent once the context is cancelled.
C4_NoSendAfterCancel ==
  \A l \in Loops :
    /\ cancelAtStart[l] => sent[l] = 0
    /\ lateSends[l] <= 1

\* The value of the cycle that was in progress at the cancellation was
\* sent, and a later attempt, begun after the cancellation, received a
\* ready signal and ended without sending.
C4_Witness ==
  \E l \in Loops :
    /\ lateSends[l] = 1
    /\ cancelAtStart[l]
    /\ pc[l] = "sleep" /\ last[l] = "idErr" /\ sent[l] = 0

\* C5: after a loop has ended with Break, a Jobs call that finds no stored
\* channel makes a channel never handed out before, starts exactly one loop
\* on that channel with the call's own ctx and ready, and stores and
\* returns that channel; a loop sends only on its own channel, receives
\* only its own ready signal, ends only on its own context, and an ended
\* loop takes no further step.
C5_FreshLoopAfterBreak ==
  /\ [][\A c \in Callers :
          (SomeLoopEnded /\ ChecksChan(c) /\ buildJobChan = 0) =>
            LET n == local'[c]
            IN  /\ cpc'[c] = "store"
                /\ n \in Loops /\ pc[n] = "none" /\ pc'[n] = "start"
                /\ \A d \in Callers : ret[d].out # n
                /\ \A m \in Loops \ {n} : pc'[m] = pc[m]
                /\ loopChan'[n] = n
                /\ loopCtx'[n] = callCtx'[c]
                /\ loopReady'[n] = callReady'[c]]_vars
  /\ [][\A c \in Callers :
          /\ (SomeLoopEnded /\ cpc[c] = "store" /\ cpc'[c] # "store") =>
               cpc'[c] = "leave" /\ buildJobChan' = local[c] /\ local'[c] = local[c]
          /\ (SomeLoopEnded /\ cpc[c] = "leave" /\ cpc'[c] # "leave") =>
               cpc'[c] = "returned" /\ ret'[c] = [out |-> local[c], err |-> "nil"]]_vars
  /\ [][\A l \in Loops :
          /\ Sends(l) => lastRecv'.ch = loopChan[l] /\ loopChan[l] = l
          /\ (pc[l] = "select" /\ pc'[l] = "fetchID") =>
               readyPending[loopReady[l]] /\ ~readyPending'[loopReady[l]]
          /\ (pc[l] # "done" /\ pc'[l] = "done") => ctxDone[loopCtx[l]]
          /\ pc[l] = "done" => pc'[l] = "done" /\ sent'[l] = sent[l]]_vars

\* The first loop has ended; a later call started a second loop, which is
\* stored, runs on an uncancelled context and has delivered a job on its
\* own channel.
C5_Witness ==
  \E k, l \in Loops :
    /\ pc[k] = "done"
    /\ pc[l] = "sleep" /\ last[l] = "jobSent"
    /\ ~ctxDone[loopCtx[l]]
    /\ buildJobChan = loopChan[l]
    /\ lastRecv.ch = loopChan[l] /\ lastRecv.val # NilJob
    /\ \E c \in Callers : cpc[c] = "returned" /\ ret[c].out = loopChan[l]

\* The processors that report "processing" in the pool of the call, the
\* job ids they report, and membership of a candidate in the request list.
Processing  == { p \in Procs : fPool[p].CurrentStatus = "processing" }
InFlightIDs == { fPool[p].LastJobID : p \in Processing }
InRequest(strID) == \E k \in 1..Len(fReq) : fReq[k] = strID

\* C6: fetchJobID never returns the id of a job a processing processor
\* reported when the request was built, whatever the job board answers;
\* when every candidate is in the request list, or there is none, it
\* returns "no jobs available".
C6_NeverReturnsRunningJob ==
  fpc = "returned" =>
    /\ fOut.err = "nil" => fOut.id \notin InFlightIDs
    /\ (fHTTP.kind = "ok" /\ \A i \in 1..Len(fHTTP.jobs) : InRequest(fHTTP.jobs[i]))
         => fOut.err = "noJobs"

\* C7: the list sent in the request holds one entry per processing
\* processor, the decimal form of its LastJobID, and nothing else: nothing
\* of a processor in another status and nothing of the request before.
C7_RequestListsProcessingJobs ==
  fpc \in {"posted", "returned"} =>
    /\ Len(fReq) = Cardinality(Processing)
    /\ \A k \in 1..Len(fReq) :
         /\ ParseUint(fReq[k]).ok
         /\ ParseUint(fReq[k]).val \in InFlightIDs
         /\ Len(fReq[k]) > 1 => fReq[k][1] # "0"
    /\ \A n \in 0..MaxJobID :
         Cardinality({ k \in 1..Len(fReq) : ParseUint(fReq[k]).val = n })
           = Cardinality({ p \in Processing : fPool[p].LastJobID = n })

\* A second call: one processor is processing and another, with another
\* job id, is not; the request before listed an id that is gone now.
C7_Witness ==
  /\ fpc = "posted"
  /\ \E p, q \in Procs :
       /\ p \in Processing /\ q \notin Processing
       /\ fPool[q].LastJobID \notin InFlightIDs
  /\ \E k \in 1..Len(fPrev) : ~InRequest(fPrev[k])

\* C8: a successful fetchJobID returns the number of the first candidate,
\* in response order, that is not in the request list (request ["1"] and
\* response ["1", "0"] give 0; response ["1"] gives "no jobs available").
C8_FirstNotInFlight ==
  fpc = "returned" =>
    /\ fOut.err = "nil" =>
         /\ fHTTP.kind = "ok"
         /\ \E i \in 1..Len(fHTTP.jobs) :
              /\ ~InRequest(fHTTP.jobs[i])
              /\ \A j \in 1..(i - 1) : InRequest(fHTTP.jobs[j])
              /\ ParseUint(fHTTP.jobs[i]) = [ok |-> TRUE, val |-> fOut.id]
    /\ (fReq = << <<"1">> >> /\ fHTTP.kind = "ok" /\ fHTTP.jobs = << <<"1">>, <<"0">> >>)
         => fOut = [id |-> 0, err |-> "nil"]
    /\ (fReq = << <<"1">> >> /\ fHTTP.kind = "ok" /\ fHTTP.jobs = << <<"1">> >>)
         => fOut.err = "noJobs"

\* Job 1 is running and the job board answers ["1", "0"]: 0 is returned.
C8_Witness ==
  /\ fpc = "returned"
  /\ fReq = << <<"1">> >>
  /\ fHTTP = [kind |-> "ok", jobs |-> << <<"1">>, <<"0">> >>]
  /\ fOut = [id |-> 0, err |-> "nil"]

\* C9: when fetchJob returns an error the attempt sends exactly one nil and
\* no job, and returns Sleep, so the loop goes on; Jobs returns a nil error.
C9_DetailErrorSendsNil ==
  /\ [][\A l \in Loops :
          /\ (pc[l] = "fetchJob" /\ err'[l] # "nil") =>
               pc'[l] = "deliver" /\ buildJob'[l] = NilJob
          /\ (Sends(l) /\ err[l] # "nil") =>
               /\ lastRecv' = [ch |-> loopChan[l], val |-> NilJob]
               /\ sent[l] = 0 /\ sent'[l] = 1
               /\ pc'[l] = "sleep" /\ pollRet'[l] = "Sleep"
               /\ buildJobChan' = buildJobChan]_vars
  /\ [](\A c \in Callers :
          IF cpc[c] = "returned" THEN ret[c].err = "nil" ELSE ret[c] = NoRet)

\* A detail fetch failed while the context was already cancelled: one nil
\* was received and the attempt returned Sleep, so the loop sleeps, to poll
\* again.
C9_Witness ==
  \E l \in Loops :
    /\ pc[l] = "sleep" /\ last[l] = "nilSent" /\ pollRet[l] = "Sleep"
    /\ sent[l] = 1
    /\ lastRecv = [ch |-> loopChan[l], val |-> NilJob]
    /\ ctxDone[loopCtx[l]]

\* C10: when fetchJobID returns an error the attempt sends nothing, issues
\* no detail fetch and returns Sleep; the id fetch is issued again only by
\* a later attempt that received a ready signal; and the sleeping loop is
\* alive: its next steps, into the next attempt, are enabled.
C10_IDFetchErrorSleeps ==
  /\ [][\A l \in Loops :
          /\ (pc[l] = "fetchID" /\ pc'[l] \notin {"fetchID", "fetchJob"}) =>
               /\ pc'[l] = "sleep" /\ pollRet'[l] = "Sleep" /\ last'[l] = "idErr"
               /\ sent[l] = 0 /\ sent'[l] = 0
               /\ tries[l] = 0 /\ tries'[l] = 0
               /\ lastRecv' = lastRecv
               /\ buildJobChan' = buildJobChan
          /\ (pc[l] # "fetchID" /\ pc'[l] = "fetchID") =>
               pc[l] = "select" /\ readyPending[loopReady[l]]
          /\ (pc[l] = "sleep" /\ pc'[l] # "sleep") => pc'[l] = "start"
          /\ (pc[l] = "start" /\ pc'[l] # "start") => pc'[l] = "select"]_vars
  /\ [](\A l \in Loops :
          /\ pc[l] = "sleep" => ENABLED Wake(l)
          /\ pc[l] = "start" => ENABLED LoopStart(l))

\* The same as a progress property, for goroutines that keep being
\* scheduled: after an id-fetch error the loop begins a further attempt.
C10_FurtherAttempt ==
  \A l \in Loops : (pc[l] = "sleep" /\ last[l] = "idErr") ~> (pc[l] = "select")

\* An attempt has ended on an id-fetch error, nothing sent, the loop asleep.
C10_Witness ==
  \E l \in Loops :
    /\ pc[l] = "sleep" /\ last[l] = "idErr" /\ pollRet[l] = "Sleep"
    /\ sent[l] = 0
    /\ ~ctxDone[loopCtx[l]]

\* Loop l holds a fetched value (a job, or the nil of a failed detail
\* fetch) that no consumer has received yet.
Undelivered(l) == pc[l] = "deliver"

\* C11: the send is a hand-off.  A loop holding an undelivered value does
\* nothing but wait: it keeps the value, receives no ready signal and makes
\* no request, until a consumer holding its channel receives exactly that
\* value; and at most one undelivered value exists at a time.
C11_BlockingHandOff ==
  /\ [][\A l \in Loops :
          Undelivered(l) =>
            \/ /\ Undelivered(l)'
               /\ <<jobID[l], tries[l], err[l], buildJob[l], sent[l]>>'
                    = <<jobID[l], tries[l], err[l], buildJob[l], sent[l]>>
               /\ (readyPending[loopReady[l]] /\ ~readyPending'[loopReady[l]]) =>
                    \E m \in Loops \ {l} : pc[m] = "select" /\ pc'[m] = "fetchID"
            \/ /\ HasConsumer(loopChan[l])
               /\ lastRecv' = [ch |-> loopChan[l],
                               val |-> IF err[l] # "nil" THEN NilJob ELSE buildJob[l]]
               /\ pc'[l] \in {"sleep", "check"}
               /\ sent'[l] = sent[l] + 1]_vars
  /\ [](Cardinality({ l \in Loops : Undelivered(l) }) <= 1)

\* A loop holds a fetched job, nobody has been handed its channel yet (the
\* Jobs call that started it has not returned), and a further ready signal
\* is waiting, unreceived.
C11_Witness ==
  \E l \in Loops :
    /\ Undelivered(l) /\ err[l] = "nil" /\ buildJob[l] # NilJob
    /\ ~HasConsumer(loopChan[l])
    /\ readyPending[loopReady[l]]

\* The timeout fires in this step: loop l leaves the first select without
\* having received a ready signal.
TimesOut(l) == pc[l] = "select" /\ pc'[l] \notin {"select", "fetchID"}

\* C12: an attempt whose timeout fires returns Continue, having made no
\* request and sent nothing, with the stored channel as it was, and the
\* driver is at the call of the next attempt, not asleep; an attempt goes
\* to sleep only after it received a ready signal.
C12_TimeoutContinues ==
  /\ [][\A l \in Loops :
          /\ TimesOut(l) =>
               /\ ~readyPending[loopReady[l]]
               /\ pollRet'[l] = "Continue" /\ last'[l] = "timeout"
               /\ pc'[l] = "start"
               /\ jobID[l] = 0 /\ tries[l] = 0 /\ tries'[l] = 0
               /\ sent[l] = 0 /\ sent'[l] = 0
               /\ lastRecv' = lastRecv
               /\ buildJobChan' = buildJobChan
               /\ readyPending' = readyPending
          /\ (pc[l] # "sleep" /\ pc'[l] = "sleep") =>
               pc[l] \in {"fetchID", "deliver", "check"}]_vars
  /\ [](\A l \in Loops :
          /\ pollRet[l] = "Continue" => pc[l] = "start" /\ last[l] = "timeout"
          /\ pollRet[l] = "Sleep" => last[l] \in {"idErr", "nilSent", "jobSent"})

\* A stored, consumed loop has just timed out: Continue, and the driver is
\* about to call pollForJobs again.
C12_Witness ==
  \E l \in Loops :
    /\ pc[l] = "start" /\ pollRet[l] = "Continue" /\ last[l] = "timeout"
    /\ buildJobChan = loopChan[l]
    /\ HasConsumer(loopChan[l])

\* C13: fetchJob issues a further GET only after a run that ended in a
\* transport error or a non-200 status with the backoff not at Stop, and
\* after such a run it is about to issue one; a 200 ends the requests,
\* whether its body decodes or not; a decodable 200 gives the job for the
\* id asked, an undecodable one the decode error, and a spent budget the
\* error of the last run; and fetchJob returns in the end.
C13_RetryUntil200OrBudget ==
  /\ [][(jTries' = jTries + 1) =>
          /\ jpc = "get"
          /\ jTries = 0 \/ (jOpErr \in Retryable /\ jBackoff = "wait")]_vars
  /\ []((jOpErr \in Retryable /\ jBackoff = "wait") => jpc = "get")
  /\ [](jpc = "got200" => jOpErr = "nil" /\ jBackoff = "none")
  /\ [][(jpc \in {"got200", "returned"}) => (jTries' = jTries)]_vars
  /\ [](jpc = "returned" =>
          IF jBackoff = "Stop"
          THEN jOpErr \in Retryable /\ jOut = [job |-> NoJob.job, err |-> jOpErr]
          ELSE /\ jOpErr = "nil"
               /\ IF jBody.decodes
                  THEN jOut.err = "nil" /\ jOut.job.id = jID
                  ELSE jOut = [job |-> NoJob.job, err |-> "decode"])
  /\ [](jTries <= MaxTries)
  /\ (jpc \in {"get", "got200"}) ~> (jpc = "returned")

\* A first GET failed, the budget was not spent, the second GET brought a
\* 200 with a decodable body, and fetchJob returned the job.
C13_Witness ==
  /\ jpc = "returned"
  /\ jTries > 1
  /\ jBody.decodes
  /\ jOut.err = "nil" /\ jOut.job.id = jID

\* fetchJob has returned a job descriptor.
ReturnedJob == jpc = "returned" /\ jOut.err = "nil"

\* C14, as claimed: the VM type of the returned start attributes equals
\* the VM type of the payload, whatever the two VM types of the body are,
\* an absent or empty payload VM type included.
C14_VMTypeEqualsPayload ==
  ReturnedJob => jOut.job.VMType = jBody.payloadVMType

\* C14, amended: the VM type of the returned start attributes is the VM
\* type of the payload when the payload names one, and the default VM type
\* when it names none; it is never taken from the start-attributes config
\* of the body.
C14_PayloadVMTypeWins ==
  ReturnedJob =>
    jOut.job.VMType =
      IF jBody.payloadVMType # "" THEN jBody.payloadVMType ELSE VMTypeDefault

\* The config of the body names one VM type and the payload another: the
\* returned job has the payload's.
C14_Witness ==
  /\ ReturnedJob
  /\ jBody.payloadVMType = "premium" /\ jBody.configVMType = "default"
  /\ jOut.job.VMType = "premium"

\* Loop l is in the part of a poll attempt that follows the receipt of a
\* ready signal.
AfterReady(l) == pc[l] \in {"fetchID", "fetchJob", "deliver", "check"}

\* C15: an attempt sends at most one value, and only after it received a
\* ready signal; the job a consumer receives is the job of the id the job
\* board returned last to the loop, and no further id is fetched before
\* that value is received, so jobs are received in the order of their ids'
\* return.
C15_OnePerAttemptInOrder ==
  /\ [](\A l \in Loops : sent[l] <= 1)
  /\ [][\A l \in Loops :
          /\ (~AfterReady(l) /\ AfterReady(l)') =>
               /\ pc[l] = "select" /\ pc'[l] = "fetchID"
               /\ readyPending[loopReady[l]] /\ ~readyPending'[loopReady[l]]
          /\ Sends(l) => AfterReady(l) /\ sent[l] = 0 /\ sent'[l] = 1
          /\ sent'[l] # sent[l] => Sends(l) \/ (pc[l] = "start" /\ sent'[l] = 0)
          /\ (Sends(l) /\ err[l] = "nil") =>
               lastRecv' = [ch |-> loopChan[l], val |-> [id |-> jobID[l]]]
          /\ jobID'[l] # jobID[l] =>
               \/ pc[l] = "fetchID" /\ pc'[l] = "fetchJob" /\ sent[l] = 0
               \/ pc[l] \in {"deliver", "check"} /\ jobID'[l] = 0 /\ ~AfterReady(l)'
          /\ lastRecv' # lastRecv =>
               \E m \in Loops : Sends(m) \/ (pc[m] = "start" /\ lastRecv' = NoRecv)]_vars

\* An attempt received a ready signal, fetched id 1 and its job, and the
\* consumer has received job 1, the one value of the attempt; the context
\* check is next.
C15_Witness ==
  \E l \in Loops :
    /\ pc[l] = "check" /\ sent[l] = 1
    /\ jobID[l] = 1 /\ buildJob[l] = [id |-> 1]
    /\ lastRecv = [ch |-> loopChan[l], val |-> [id |-> 1]]

\* C16: the stored channel reference is read and written only by whoever
\* holds the mutex: a step that changes it is a step of the call that
\* holds the mutex, and a loop that clears it holds the mutex as well.
C16_MutexGuardsChannel ==
  [][buildJobChan' # buildJobChan =>
       /\ \E c \in Callers : mutex = c /\ cpc[c] = "store" /\ cpc'[c] = "leave"
       /\ \A l \in Loops : pc'[l] = pc[l]]_vars

\* Candidate i of the response is not in the request list and is not the
\* decimal form of an unsigned integer.
BadCandidate(i) == ~InRequest(fHTTP.jobs[i]) /\ ~ParseUint(fHTTP.jobs[i]).ok

\* C17: fetchJobID on a decoded response returns the parse error exactly
\* when some candidate, at any place of the response, is neither in the
\* request list nor parsable, valid candidates before it notwithstanding;
\* a candidate in the request list causes no parse error.
C17_BadCandidateFailsFetch ==
  (fpc = "returned" /\ fHTTP.kind = "ok") =>
    /\ (fOut.err = "parse") = (\E i \in 1..Len(fHTTP.jobs) : BadCandidate(i))
    /\ fOut.err = "parse" => fOut.id = 0
    /\ (\A i \in 1..Len(fHTTP.jobs) : InRequest(fHTTP.jobs[i])) => fOut.err = "noJobs"

\* Job 1 is running; the job board answers ["0", "x"]: 0 is valid and not
\* running, and yet the fetch fails on "x".
C17_Witness ==
  /\ fpc = "returned"
  /\ fReq = << <<"1">> >>
  /\ fHTTP = [kind |-> "ok", jobs |-> << <<"0">>, <<"x">> >>]
  /\ fOut = [id |-> 0, err |-> "parse"]

\* The loops that were started and have not returned Break.
LiveLoops == { l \in Loops : pc[l] \notin {"none", "done"} }

Breaks(l) == pc[l] # "done" /\ pc'[l] = "done"

\* C19: a loop returns Break, and the stored channel is cleared, only at
\* the end of an attempt that sent a job, not a nil, which a consumer
\* received, and with its context cancelled; it does not end in the first
\* select, during a fetch, at the send, asleep, or at the end of an attempt
\* that timed out, failed to fetch an id or delivered a nil.
C19_BreakOnlyAfterJobSent ==
  /\ [][\A l \in Loops :
          /\ Breaks(l) =>
               /\ pc[l] = "check" /\ ctxDone[loopCtx[l]]
               /\ sent[l] = 1
               /\ err[l] = "nil" /\ buildJob[l] # NilJob
               /\ lastRecv = [ch |-> loopChan[l], val |-> buildJob[l]]
               /\ pollRet'[l] = "Break" /\ last'[l] = "jobSent"
          /\ pc[l] \in {"start", "select", "fetchID", "fetchJob", "deliver", "sleep"}
               => pc'[l] # "done"
          /\ (pc[l] \in {"fetchID", "deliver", "select"} /\ pc'[l] \in {"sleep", "start"})
               => buildJobChan' = buildJobChan /\ pollRet'[l] \in {"Sleep", "Continue"}]_vars
  /\ [][(buildJobChan # 0 /\ buildJobChan' = 0) => \E l \in Loops : Breaks(l)]_vars
  /\ [](\A l \in Loops :
          (pollRet[l] = "Break") = (pc[l] = "done")
          /\ (pc[l] = "done" => last[l] = "jobSent" /\ sent[l] = 1))

\* A loop has returned Break: the last value received is a job sent on its
\* channel, and the stored channel is cleared.
C19_Witness ==
  \E l \in Loops :
    /\ pc[l] = "done" /\ pollRet[l] = "Break"
    /\ lastRecv.ch = loopChan[l] /\ lastRecv.val # NilJob
    /\ buildJobChan = 0

\* C20: a Jobs call whose check finds a stored channel changes nothing of
\* the queue, of the loops or of what was received, whatever ctx and ready
\* it was given; a live loop keeps the ctx and the ready it was started
\* with, returns Break only when that ctx is cancelled, and goes to fetch
\* only on a signal of that ready channel, which it alone consumes.
C20_LaterCallChangesNothing ==
  /\ [][\A c \in Callers :
          (ChecksChan(c) /\ buildJobChan # 0) =>
            /\ UNCHANGED <<queueVars, envVars, loopVars, lastRecv>>
            /\ cpc'[c] = "returned" /\ ret'[c] = [out |-> buildJobChan, err |-> "nil"]]_vars
  /\ [][\A l \in Loops :
          /\ (l \in LiveLoops /\ ~Breaks(l)) =>
               <<loopCtx[l], loopReady[l], loopChan[l]>>'
                 = <<loopCtx[l], loopReady[l], loopChan[l]>>
          /\ Breaks(l) => ctxDone[loopCtx[l]]
          /\ (pc[l] = "select" /\ pc'[l] = "fetchID") =>
               /\ readyPending[loopReady[l]]
               /\ readyPending' = [readyPending EXCEPT ![loopReady[l]] = FALSE]]_vars

\* Two calls have returned the one stored channel; the loop was started on
\* ctxA and readyA; the other context is cancelled and a signal waits on
\* the other ready channel, and the loop has let an attempt time out.
C20_Witness ==
  /\ \E c, d \in Callers :
       /\ c # d /\ cpc[c] = "returned" /\ cpc[d] = "returned"
       /\ ret[c].out = buildJobChan /\ ret[d].out = buildJobChan
  /\ buildJobChan # 0
  /\ \E l \in LiveLoops :
       /\ loopChan[l] = buildJobChan
       /\ loopCtx[l] = "ctxA" /\ loopReady[l] = "readyA"
       /\ pc[l] = "start" /\ last[l] = "timeout"
  /\ ctxDone["ctxB"] /\ ~ctxDone["ctxA"]
  /\ readyPending["readyB"] /\ ~readyPending["readyA"]

====
